---- MODULE Spec2Model ----
(***************************************************************************)
(* Model of the expression value/type core (style-spec/expression/values)  *)
(* and of the touch / context-menu bookkeeping of ui/interaction.          *)
(*                                                                         *)
(* JavaScript values are records tagged by `k`.  A number is held exactly  *)
(* as whole + halves/2 so that the fractional alpha channel (0.5, 1.5) can *)
(* be compared without floating point.  An object keeps its properties in  *)
(* insertion order, as the engine does.  A type descriptor is a reference  *)
(* (kind, addr): addr 0 is the module-level singleton of that kind, a      *)
(* positive addr is a cell of `heap`, allocated by array().                *)
(***************************************************************************)
EXTENDS Integers, Sequences, FiniteSets, TLC

VARIABLES
    mixed,        \* the candidate handed to isValue / typeOf / toString
    other,        \* a separately constructed value, structurally equal to mixed
    isValueRet,   \* <<>> before the call, <<b>> after isValue(mixed) returned b
    typeRet,      \* results of the typeOf calls made so far, in call order
    strRet,       \* results of the toString calls made so far, in call order
    heap,         \* array type descriptors allocated so far
    r, g, b, a,   \* arguments of validateRGBA
    rgbaRet,      \* <<>> before the call, <<result>> after validateRGBA returned
    tapped,       \* Interaction: this._tapped
    contextMenuFired, \* Interaction: this._contextMenuFired
    timers,       \* ids of the host's pending setTimeout timers
    nextTimer,    \* the id the next setTimeout returns
    event,        \* the DOM event (or timer expiry) dispatched last
    fired         \* the events fired on the map so far, in order

valueVars == <<mixed, other, isValueRet, typeRet, strRet, heap>>
rgbaVars == <<r, g, b, a, rgbaRet>>
uiVars == <<tapped, contextMenuFired, timers, nextTimer, event, fired>>
vars == <<valueVars, rgbaVars, uiVars>>

(***************************************************************************)
(* JavaScript values                                                       *)
(***************************************************************************)
Null == [k |-> "null"]
Undefined == [k |-> "undefined"]
Func == [k |-> "function"]
Sym == [k |-> "symbol"]
Date == [k |-> "date"]
Str(s) == [k |-> "string", s |-> s]
Bool(v) == [k |-> "boolean", v |-> v]
Half(whole, halves) == [k |-> "number", nan |-> FALSE, whole |-> whole, halves |-> halves]
Num(n) == Half(n, 0)
NaN == [k |-> "number", nan |-> TRUE, whole |-> 0, halves |-> 0]
Wrapper(cls) == [k |-> cls]
Arr(items) == [k |-> "array", items |-> items]
Obj(props) == [k |-> "object", props |-> props]
Prop(key, val) == [key |-> key, val |-> val]

WrapperKinds == {"Color", "Collator", "Formatted", "Padding", "ResolvedImage"}

\* The `typeof` operator.
TypeofJs(v) ==
    CASE v.k \in {"string", "number", "boolean", "undefined", "function", "symbol"} -> v.k
      [] OTHER -> "object"

\* x >= c and x <= c on numbers; every comparison with NaN is false.
Geq(x, c) == ~x.nan /\ 2 * x.whole + x.halves >= 2 * c
Leq(x, c) == ~x.nan /\ 2 * x.whole + x.halves <= 2 * c

\* String(x) for a number x.
NumStr(x) ==
    IF x.nan THEN "NaN"
    ELSE IF x.halves = 0 THEN ToString(x.whole)
    ELSE IF x.whole >= 0 THEN ToString(x.whole) \o ".5"
    ELSE "-" \o ToString(-x.whole - 1) \o ".5"

(***************************************************************************)
(* validateRGBA                                                            *)
(***************************************************************************)
\* Mutant: the lower bound taken exclusive (c > 0).
ChannelOk_exclusiveZero(c) == TypeofJs(c) = "number" /\ ~Leq(c, 0) /\ Leq(c, 255)

\* typeof c === 'number' && c >= 0 && c <= 255
ChannelOk(c) == TypeofJs(c) = "number" /\ Geq(c, 0) /\ Leq(c, 255)

\* typeof a === 'undefined' || (typeof a === 'number' && a >= 0 && a <= 1)
AlphaOk(x) == TypeofJs(x) = "undefined" \/ (TypeofJs(x) = "number" /\ Geq(x, 0) /\ Leq(x, 1))

RgbRule == "'r', 'g', and 'b' must be between 0 and 255."
AlphaRule == "'a' must be between 0 and 1."

\* String(x) for a primitive string, number or boolean x.
StringOf(x) ==
    CASE x.k = "string" -> x.s
      [] x.k = "number" -> NumStr(x)
      [] OTHER -> (IF x.v THEN "true" ELSE "false")

\* The text Array.prototype.join gives an element: "" for null and undefined.
JoinItem(x) == IF x.k \in {"null", "undefined"} THEN "" ELSE StringOf(x)

\* value.join(', ')
RECURSIVE Join(_)
Join(value) ==
    IF Len(value) = 0 THEN ""
    ELSE IF Len(value) = 1 THEN JoinItem(value[1])
    ELSE JoinItem(value[1]) \o ", " \o Join(Tail(value))

\* The returned string | null: `error` is FALSE for null; otherwise `text` is
\* the string, `value` the array that was joined into it and `rule` its tail.
NoError == [error |-> FALSE, value |-> <<>>, rule |-> "", text |-> ""]
Message(value, rule) ==
    [error |-> TRUE, value |-> value, rule |-> rule,
     text |-> "Invalid rgba value [" \o Join(value) \o "]: " \o rule]

validateRGBA(pr, pg, pb, pa) ==
    IF ~(ChannelOk(pr) /\ ChannelOk(pg) /\ ChannelOk(pb))
    THEN LET value == IF TypeofJs(pa) = "number" THEN <<pr, pg, pb, pa>> ELSE <<pr, pg, pb>>
         IN  Message(value, RgbRule)
    ELSE IF ~AlphaOk(pa)
    THEN Message(<<pr, pg, pb, pa>>, AlphaRule)
    ELSE NoError

(***************************************************************************)
(* Type descriptors                                                        *)
(***************************************************************************)
Singleton(kind) == [kind |-> kind, addr |-> 0]
NullType == Singleton("null")
NumberType == Singleton("number")
StringType == Singleton("string")
BooleanType == Singleton("boolean")
ColorType == Singleton("color")
ObjectType == Singleton("object")
ValueType == Singleton("value")
CollatorType == Singleton("collator")
FormattedType == Singleton("formatted")
ResolvedImageType == Singleton("resolvedImage")
PaddingType == Singleton("padding")

\* `let itemType: Type | typeof undefined` before its first assignment.
Unset == [kind |-> "undefined", addr |-> 0]

\* array(itemType, N): a new descriptor {kind: 'array', itemType, N} per call.
array(itemType, N, h) ==
    [type |-> [kind |-> "array", addr |-> Len(h) + 1],
     heap |-> Append(h, [itemType |-> itemType, N |-> N])]

(***************************************************************************)
(* isValue                                                                 *)
(***************************************************************************)
\* The properties `for (const key in mixed)` visits, in visiting order.
EnumerableProps(v) == IF v.k = "object" THEN v.props ELSE <<>>

RECURSIVE isValue(_)

\* Mutant: an array is accepted without looking at its elements.
isValue_shallowArray(v) ==
    IF v = Null THEN TRUE
    ELSE IF TypeofJs(v) \in {"string", "boolean", "number"} THEN TRUE
    ELSE IF v.k \in WrapperKinds THEN TRUE
    ELSE IF v.k = "array" THEN TRUE
    ELSE IF TypeofJs(v) = "object"
         THEN \A i \in 1..Len(EnumerableProps(v)) : isValue(EnumerableProps(v)[i].val)
    ELSE FALSE

isValue(v) ==
    IF v = Null THEN TRUE
    ELSE IF TypeofJs(v) = "string" THEN TRUE
    ELSE IF TypeofJs(v) = "boolean" THEN TRUE
    ELSE IF TypeofJs(v) = "number" THEN TRUE
    ELSE IF v.k = "Color" THEN TRUE
    ELSE IF v.k = "Collator" THEN TRUE
    ELSE IF v.k = "Formatted" THEN TRUE
    ELSE IF v.k = "Padding" THEN TRUE
    ELSE IF v.k = "ResolvedImage" THEN TRUE
    ELSE IF v.k = "array" THEN \A i \in 1..Len(v.items) : isValue(v.items[i])
    ELSE IF TypeofJs(v) = "object"
         THEN \A i \in 1..Len(EnumerableProps(v)) : isValue(EnumerableProps(v)[i].val)
    ELSE FALSE

(***************************************************************************)
(* typeOf                                                                  *)
(***************************************************************************)
\* A call's outcome: the descriptor returned, the heap after the call, and
\* whether the call ended in the AssertionError of the final branch.
Returned(type, h) == [type |-> type, heap |-> h, threw |-> FALSE]
Threw(h) == [type |-> Unset, heap |-> h, threw |-> TRUE]

RECURSIVE typeOf(_, _)
RECURSIVE typeOfItems(_, _, _, _)

\* Mutant: on a mismatch the loop adopts the new element's type and goes on.
typeOfItems_adoptLatest(items, i, itemType, h) ==
    IF i > Len(items) THEN Returned(itemType, h)
    ELSE LET t == typeOf(items[i], h)
         IN  IF t.threw THEN Threw(t.heap)
             ELSE typeOfItems(items, i + 1, t.type, t.heap)

\* Mutant: element types are compared by kind, not by identity.
typeOfItems_compareKind(items, i, itemType, h) ==
    IF i > Len(items) THEN Returned(itemType, h)
    ELSE LET t == typeOf(items[i], h)
         IN  IF t.threw THEN Threw(t.heap)
             ELSE IF itemType = Unset THEN typeOfItems(items, i + 1, t.type, t.heap)
             ELSE IF itemType.kind = t.type.kind THEN typeOfItems(items, i + 1, itemType, t.heap)
             ELSE Returned(ValueType, t.heap)

\* The `for (const item of value)` loop from index i on, itemType so far.
typeOfItems(items, i, itemType, h) ==
    IF i > Len(items) THEN Returned(itemType, h)
    ELSE LET t == typeOf(items[i], h)
         IN  IF t.threw THEN Threw(t.heap)
             ELSE IF itemType = Unset THEN typeOfItems(items, i + 1, t.type, t.heap)
             ELSE IF itemType = t.type THEN typeOfItems(items, i + 1, itemType, t.heap)
             ELSE Returned(ValueType, t.heap)

\* Mutant: the type of the empty array is one shared descriptor.
typeOf_sharedEmptyArrayType(value, h) ==
    IF value = Null THEN Returned(NullType, h)
    ELSE IF TypeofJs(value) = "string" THEN Returned(StringType, h)
    ELSE IF TypeofJs(value) = "boolean" THEN Returned(BooleanType, h)
    ELSE IF TypeofJs(value) = "number" THEN Returned(NumberType, h)
    ELSE IF value.k = "Color" THEN Returned(ColorType, h)
    ELSE IF value.k = "Collator" THEN Returned(CollatorType, h)
    ELSE IF value.k = "Formatted" THEN Returned(FormattedType, h)
    ELSE IF value.k = "Padding" THEN Returned(PaddingType, h)
    ELSE IF value.k = "ResolvedImage" THEN Returned(ResolvedImageType, h)
    ELSE IF value.k = "array" /\ Len(value.items) = 0 THEN Returned(Singleton("array"), h)
    ELSE IF value.k = "array"
         THEN LET loop == typeOfItems(value.items, 1, Unset, h)
              IN  IF loop.threw THEN Threw(loop.heap)
                  ELSE LET made == array(loop.type, Len(value.items), loop.heap)
                       IN  Returned(made.type, made.heap)
    ELSE IF TypeofJs(value) = "object" THEN Returned(ObjectType, h)
    ELSE Threw(h)

typeOf(value, h) ==
    IF value = Null THEN Returned(NullType, h)
    ELSE IF TypeofJs(value) = "string" THEN Returned(StringType, h)
    ELSE IF TypeofJs(value) = "boolean" THEN Returned(BooleanType, h)
    ELSE IF TypeofJs(value) = "number" THEN Returned(NumberType, h)
    ELSE IF value.k = "Color" THEN Returned(ColorType, h)
    ELSE IF value.k = "Collator" THEN Returned(CollatorType, h)
    ELSE IF value.k = "Formatted" THEN Returned(FormattedType, h)
    ELSE IF value.k = "Padding" THEN Returned(PaddingType, h)
    ELSE IF value.k = "ResolvedImage" THEN Returned(ResolvedImageType, h)
    ELSE IF value.k = "array"
         THEN LET length == Len(value.items)
                  loop == typeOfItems(value.items, 1, Unset, h)
              IN  IF loop.threw THEN Threw(loop.heap)
                  ELSE LET made == array(IF loop.type = Unset THEN ValueType ELSE loop.type,
                                         length, loop.heap)
                       IN  Returned(made.type, made.heap)
    ELSE IF TypeofJs(value) = "object" THEN Returned(ObjectType, h)
    ELSE Threw(h)

(***************************************************************************)
(* toString                                                                *)
(***************************************************************************)
\* The canonical array-index property names, in ascending numeric order.  An
\* object lists these first, whatever their insertion order, and its other
\* string keys after them in insertion order (OrdinaryOwnPropertyKeys).
IndexKeys == <<"0", "1", "2">>
IsIndexKey(key) == \E j \in 1..Len(IndexKeys) : IndexKeys[j] = key

RECURSIVE IndexProps(_, _)
IndexProps(props, j) ==
    IF j > Len(IndexKeys) THEN <<>>
    ELSE SelectSeq(props, LAMBDA p : p.key = IndexKeys[j]) \o IndexProps(props, j + 1)

\* Mutant: every property in insertion order, index keys not moved first.
OwnProps_insertionOrder(props) == props

OwnProps(props) ==
    IndexProps(props, 1) \o SelectSeq(props, LAMBDA p : ~IsIndexKey(p.key))

\* value.toString() of Color, Formatted, Padding and ResolvedImage, and the
\* JSON text of a wrapper instance: opaque here, one text per wrapper value.
WrapperToString(v) == "<" \o v.k \o ">"
WrapperJson(v) == "{<" \o v.k \o ">}"

\* JSON.stringify leaves out a property whose value has no JSON text.
HasJson(v) == v.k \notin {"undefined", "function", "symbol"}

RECURSIVE JsonText(_)
RECURSIVE JsonItems(_)
RECURSIVE JsonProps(_)

JsonItems(items) ==
    IF Len(items) = 0 THEN ""
    ELSE LET head == IF HasJson(items[1]) THEN JsonText(items[1]) ELSE "null"
         IN  IF Len(items) = 1 THEN head ELSE head \o "," \o JsonItems(Tail(items))

JsonProps(props) ==
    IF Len(props) = 0 THEN ""
    ELSE LET head == "\"" \o props[1].key \o "\":" \o JsonText(props[1].val)
         IN  IF Len(props) = 1 THEN head ELSE head \o "," \o JsonProps(Tail(props))

JsonText(v) ==
    CASE v.k = "null" -> "null"
      [] v.k = "string" -> "\"" \o v.s \o "\""
      [] v.k = "number" -> (IF v.nan THEN "null" ELSE NumStr(v))
      [] v.k = "boolean" -> (IF v.v THEN "true" ELSE "false")
      [] v.k = "date" -> "\"<date>\""
      [] v.k \in WrapperKinds -> WrapperJson(v)
      [] v.k = "array" -> "[" \o JsonItems(v.items) \o "]"
      [] v.k = "object" ->
            "{" \o JsonProps(SelectSeq(OwnProps(v.props), LAMBDA p : HasJson(p.val))) \o "}"
      [] OTHER -> "undefined"

\* JSON.stringify(value)
JSONstringify(value) == JsonText(value)

toString(value) ==
    LET type == TypeofJs(value)
    IN  IF value = Null THEN ""
        ELSE IF type = "string" \/ type = "number" \/ type = "boolean" THEN StringOf(value)
        ELSE IF value.k = "Color" \/ value.k = "Formatted" \/ value.k = "Padding"
                \/ value.k = "ResolvedImage"
             THEN WrapperToString(value)
        ELSE JSONstringify(value)

(***************************************************************************)
(* Inputs                                                                  *)
(***************************************************************************)
MaxLen == 3      \* longest flat array
MaxInner == 2    \* longest array nested in an array
MaxOuter == 2    \* longest array that holds arrays
MaxKeys == 2     \* most properties of an object
MaxCalls == 2    \* typeOf calls per run

SeqsUpTo(S, n) == UNION {[1..m -> S] : m \in 0..n}

Leaves ==
    {Null, Str("a"), Bool(TRUE), Num(1), NaN, Undefined, Func, Sym, Date}
        \cup {Wrapper(cls) : cls \in WrapperKinds}
Items == {Num(1), Str("a"), Wrapper("Color"), Func}
InnerLeaves == {Num(1), Func}
Keys == {"a", "b", "0"}

FlatArrays == {Arr(s) : s \in SeqsUpTo(Items, MaxLen)}
InnerArrays == {Arr(s) : s \in SeqsUpTo(InnerLeaves, MaxInner)}
NestedArrays == {Arr(s) : s \in SeqsUpTo(Items \cup InnerArrays, MaxOuter)}
FlatObjects ==
    {Obj(s) : s \in {t \in SeqsUpTo({Prop(key, val) : key \in Keys, val \in Items}, MaxKeys) :
                        \A i, j \in 1..Len(t) : t[i].key = t[j].key => i = j}}
NestedObjects ==
    {Obj(<<Prop("a", x)>>) : x \in InnerArrays \cup FlatObjects}
        \cup {Arr(<<x>>) : x \in FlatObjects}

Candidates == Leaves \cup FlatArrays \cup NestedArrays \cup FlatObjects \cup NestedObjects

\* Structural equality of the data model: arrays by position, objects by key
\* (insertion order irrelevant), everything else by value.
RECURSIVE StructEq(_, _)
StructEq(v, w) ==
    IF v.k # w.k THEN FALSE
    ELSE IF v.k = "array"
         THEN /\ Len(v.items) = Len(w.items)
              /\ \A i \in 1..Len(v.items) : StructEq(v.items[i], w.items[i])
    ELSE IF v.k = "object"
         THEN /\ Len(v.props) = Len(w.props)
              /\ \A i \in 1..Len(v.props) : \E j \in 1..Len(w.props) :
                    /\ v.props[i].key = w.props[j].key
                    /\ StructEq(v.props[i].val, w.props[j].val)
    ELSE v = w

\* Every in-memory representation of the value v: the same members, each
\* object's properties inserted in any order.
RECURSIVE Variants(_)
Variants(v) ==
    IF v.k = "array"
    THEN LET n == Len(v.items)
         IN  {Arr(t) : t \in {u \in [1..n -> UNION {Variants(v.items[i]) : i \in 1..n}] :
                                \A i \in 1..n : u[i] \in Variants(v.items[i])}}
    ELSE IF v.k = "object"
    THEN LET n == Len(v.props)
             vals == {u \in [1..n -> UNION {Variants(v.props[i].val) : i \in 1..n}] :
                        \A i \in 1..n : u[i] \in Variants(v.props[i].val)}
             perms == {p \in [1..n -> 1..n] : \A i, j \in 1..n : p[i] = p[j] => i = j}
         IN  {Obj([i \in 1..n |-> Prop(v.props[p[i]].key, u[p[i]])]) : u \in vals, p \in perms}
    ELSE {v}

ChannelInputs == {Num(-1), Num(0), Half(0, 1), Num(255), Num(256), NaN, Str("0")}
AlphaInputs ==
    {Undefined, Null, Str("x"), Num(-1), Num(0), Half(0, 1), Num(1), Half(1, 1), NaN}

MaxTouches == 2  \* most touches of a touchstart event
MaxTimers == 3   \* timers the host hands out per run
MaxFired == 4    \* events fired on the map per run

\* ToBoolean, as `!x` and `x && ...` apply it.
Truthy(v) ==
    CASE v.k \in {"null", "undefined"} -> FALSE
      [] v.k = "boolean" -> v.v
      [] v.k = "number" -> ~v.nan /\ (v.whole # 0 \/ v.halves # 0)
      [] v.k = "string" -> v.s # ""
      [] OTHER -> TRUE

\* A dispatched event: e.touches (undefined when the event has none), and
\* map.dragRotate.active / map.dragPan.active as the handler reads them.
DomEvent(type, touches, rot, pan) ==
    [type |-> type, touches |-> touches, dragRotate |-> rot, dragPan |-> pan]

TouchLists == {Undefined} \cup {Arr([i \in 1..n |-> Obj(<<>>)]) : n \in 0..MaxTouches}

\* The Interaction object after construction: neither field is assigned.
UiIdle ==
    /\ tapped = Undefined
    /\ contextMenuFired = Undefined
    /\ timers = {}
    /\ nextTimer = 1
    /\ event = DomEvent("none", Undefined, FALSE, FALSE)
    /\ fired = <<>>

(***************************************************************************)
(* The value core: isValue, typeOf and toString applied to a candidate     *)
(***************************************************************************)
RgbaIdle ==
    /\ r = Num(0) /\ g = Num(0) /\ b = Num(0) /\ a = Undefined
    /\ rgbaRet = <<>>

ValueIdle ==
    /\ mixed = Null /\ other = Null
    /\ isValueRet = <<>> /\ typeRet = <<>> /\ strRet = <<>> /\ heap = <<>>

CallIsValue ==
    /\ isValueRet = <<>>
    /\ isValueRet' = <<isValue(mixed)>>
    /\ UNCHANGED <<mixed, other, typeRet, strRet, heap, rgbaVars, uiVars>>

\* The first call is on `mixed`, every later one on the separately
\* constructed `other`.
CallTypeOf ==
    /\ Len(typeRet) < MaxCalls
    /\ LET arg == IF typeRet = <<>> THEN mixed ELSE other
           res == typeOf(arg, heap)
       IN  /\ typeRet' = Append(typeRet, [type |-> res.type, threw |-> res.threw])
           /\ heap' = res.heap
    /\ UNCHANGED <<mixed, other, isValueRet, strRet, rgbaVars, uiVars>>

CallToString ==
    /\ Len(strRet) < 2
    /\ strRet' = Append(strRet, toString(IF strRet = <<>> THEN mixed ELSE other))
    /\ UNCHANGED <<mixed, other, isValueRet, typeRet, heap, rgbaVars, uiVars>>

Init ==
    /\ mixed \in Candidates
    /\ other \in Variants(mixed)
    /\ isValueRet = <<>> /\ typeRet = <<>> /\ strRet = <<>> /\ heap = <<>>
    /\ RgbaIdle
    /\ UiIdle

Next == CallIsValue \/ CallTypeOf \/ CallToString

Spec == Init /\ [][Next]_vars

(***************************************************************************)
(* validateRGBA applied to four arguments                                  *)
(***************************************************************************)
CallValidateRGBA ==
    /\ rgbaRet = <<>>
    /\ rgbaRet' = <<validateRGBA(r, g, b, a)>>
    /\ UNCHANGED <<r, g, b, a, valueVars, uiVars>>

RgbaInit ==
    /\ r \in ChannelInputs /\ g \in ChannelInputs /\ b \in ChannelInputs
    /\ a \in AlphaInputs
    /\ rgbaRet = <<>>
    /\ ValueIdle
    /\ UiIdle

RgbaNext == CallValidateRGBA

SpecRGBA == RgbaInit /\ [][RgbaNext]_vars

(***************************************************************************)
(* Interaction: the handlers of touchstart, mouseup, contextmenu, dblclick *)
(* and the tap timer                                                       *)
(***************************************************************************)
\* this._fireEvent(type, e)
FireEvent(log, type) == Append(log, type)

\* Mutant: the timer is left running.
ClearTimeout_forgotten(pending, handle) == pending

\* clearTimeout(handle): the timer, if still pending, never runs.
ClearTimeout(pending, handle) ==
    IF handle.k = "number" THEN pending \ {handle.whole} ELSE pending

OnTouchStart(e) ==
    /\ event' = e
    /\ IF ~Truthy(e.touches) \/ Len(e.touches.items) > 1
       THEN UNCHANGED <<tapped, timers, nextTimer, fired>>
       ELSE IF ~Truthy(tapped)
       THEN /\ nextTimer <= MaxTimers
            /\ tapped' = Num(nextTimer)
            /\ timers' = timers \cup {nextTimer}
            /\ nextTimer' = nextTimer + 1
            /\ UNCHANGED fired
       ELSE /\ Len(fired) < MaxFired
            /\ timers' = ClearTimeout(timers, tapped)
            /\ tapped' = Null
            /\ fired' = FireEvent(fired, "dblclick")
            /\ UNCHANGED nextTimer
    /\ UNCHANGED <<contextMenuFired, valueVars, rgbaVars>>

\* The 300 ms timer `id` runs this._onTimeout.
OnTimeout(id) ==
    /\ id \in timers
    /\ timers' = timers \ {id}
    /\ tapped' = Null
    /\ event' = DomEvent("timeout", Undefined, FALSE, FALSE)
    /\ UNCHANGED <<contextMenuFired, nextTimer, fired, valueVars, rgbaVars>>

\* Mutant: the pending flag is cleared only when 'contextmenu' was fired.
OnMouseUp_keepsSuppressedFlag(e) ==
    /\ Len(fired) + 2 <= MaxFired
    /\ event' = e
    /\ IF Truthy(contextMenuFired) /\ ~e.dragRotate /\ ~e.dragPan
       THEN /\ fired' = FireEvent(FireEvent(fired, "contextmenu"), "mouseup")
            /\ contextMenuFired' = Null
       ELSE /\ fired' = FireEvent(fired, "mouseup")
            /\ UNCHANGED contextMenuFired
    /\ UNCHANGED <<tapped, timers, nextTimer, valueVars, rgbaVars>>

OnMouseUp(e) ==
    /\ Len(fired) + 2 <= MaxFired
    /\ event' = e
    /\ LET log == IF Truthy(contextMenuFired) /\ ~e.dragRotate /\ ~e.dragPan
                  THEN FireEvent(fired, "contextmenu")
                  ELSE fired
       IN  fired' = FireEvent(log, "mouseup")
    /\ contextMenuFired' = Null
    /\ UNCHANGED <<tapped, timers, nextTimer, valueVars, rgbaVars>>

OnContextMenu ==
    /\ contextMenuFired' = Bool(TRUE)
    /\ event' = DomEvent("contextmenu", Undefined, FALSE, FALSE)
    /\ UNCHANGED <<tapped, timers, nextTimer, fired, valueVars, rgbaVars>>

OnDblClick ==
    /\ Len(fired) < MaxFired
    /\ fired' = FireEvent(fired, "dblclick")
    /\ event' = DomEvent("dblclick", Undefined, FALSE, FALSE)
    /\ UNCHANGED <<tapped, contextMenuFired, timers, nextTimer, valueVars, rgbaVars>>

UiInit ==
    /\ UiIdle
    /\ ValueIdle
    /\ RgbaIdle

UiNext ==
    \/ \E t \in TouchLists : OnTouchStart(DomEvent("touchstart", t, FALSE, FALSE))
    \/ \E id \in 1..MaxTimers : OnTimeout(id)
    \/ \E rot, pan \in BOOLEAN : OnMouseUp(DomEvent("mouseup", Undefined, rot, pan))
    \/ OnContextMenu
    \/ OnDblClick

SpecInteraction == UiInit /\ [][UiNext]_vars

(***************************************************************************)
(* Properties of typeOf                                                    *)
(***************************************************************************)
\* The argument of the i-th typeOf (or toString) call.
ArgOf(i) == IF i = 1 THEN mixed ELSE other

\* What a descriptor denotes: its kind and, for an Array type, the item type
\* it denotes and its length.  Two references are identity-equal iff they are
\* equal; two distinct references may denote the same thing.
RECURSIVE Denotes(_, _)
Denotes(type, h) ==
    IF type.addr = 0 THEN [kind |-> type.kind]
    ELSE [kind |-> "array", itemType |-> Denotes(h[type.addr].itemType, h),
          N |-> h[type.addr].N]

\* The kind of the singleton type of a Value that is not an array.
LeafKind(v) ==
    CASE v.k \in {"null", "string", "boolean", "number"} -> v.k
      [] v.k = "Color" -> "color"
      [] v.k = "Collator" -> "collator"
      [] v.k = "Formatted" -> "formatted"
      [] v.k = "Padding" -> "padding"
      [] v.k = "ResolvedImage" -> "resolvedImage"
      [] OTHER -> "object"

\* The class under which two element types can be identity-equal at all: the
\* singleton kind of a non-array element, "array" for an array element.
ElementClass(v) == IF v.k = "array" THEN "array" ELSE LeafKind(v)

\* `type` is what the homogeneity-merge allows typeOf to return for the Value
\* v: the singleton of its kind for a non-array; for an array a descriptor
\* of its length whose item type is the top type when v is empty, the common
\* singleton when all elements are non-arrays of one kind, the top type when
\* two elements differ in class, and, when all elements are arrays, either
\* the first element's Array type (every element's type being that same
\* descriptor) or, with two or more elements, the top type (a mismatch).
RECURSIVE MergeAllows(_, _, _)
MergeAllows(v, type, h) ==
    IF v.k # "array" THEN type = Singleton(LeafKind(v))
    ELSE /\ type.kind = "array"
         /\ type.addr \in 1..Len(h)
         /\ h[type.addr].N = Len(v.items)
         /\ LET n == Len(v.items)
                item == h[type.addr].itemType
            IN  IF n = 0 THEN item = ValueType
                ELSE IF \E j \in 1..n : ElementClass(v.items[j]) # ElementClass(v.items[1])
                THEN item = ValueType
                ELSE IF v.items[1].k # "array" THEN item = Singleton(LeafKind(v.items[1]))
                ELSE \/ n >= 2 /\ item = ValueType
                     \/ \A j \in 1..n : MergeAllows(v.items[j], item, h)

ArrayOf(itemKind, n) == [kind |-> "array", itemType |-> [kind |-> itemKind], N |-> n]
TypeOfLiteral(v) == LET res == typeOf(v, <<>>) IN Denotes(res.type, res.heap)

\* C1: for every array accepted by isValue, typeOf returns an Array type whose
\* length is the element count and whose item type is the homogeneity-merge
\* of the element types: the top type for [], the first element's type when
\* every later element's type is identity-equal to it, the top type from the
\* first mismatch on; [1,2,3] is Array(Number,3), [1,"a"] and [1,"a",1] are
\* Array(Value,n).
C1_ArrayTypeIsHomogeneityMerge ==
    /\ \A i \in 1..Len(typeRet) :
          (isValueRet = <<TRUE>> /\ ArgOf(i).k = "array") =>
              /\ ~typeRet[i].threw
              /\ MergeAllows(ArgOf(i), typeRet[i].type, heap)
    /\ TypeOfLiteral(Arr(<<>>)) = ArrayOf("value", 0)
    /\ TypeOfLiteral(Arr(<<Num(1), Num(2), Num(3)>>)) = ArrayOf("number", 3)
    /\ TypeOfLiteral(Arr(<<Num(1), Str("a")>>)) = ArrayOf("value", 2)
    /\ TypeOfLiteral(Arr(<<Num(1), Str("a"), Num(1)>>)) = ArrayOf("value", 3)

C1_Witness ==
    /\ isValueRet = <<TRUE>>
    /\ mixed = Arr(<<Num(1), Str("a"), Num(1)>>)
    /\ Len(typeRet) >= 1
    /\ Denotes(typeRet[1].type, heap) = ArrayOf("value", 3)

\* C5: typeOf compares the types of array elements by identity: for an array
\* accepted by isValue whose elements are all arrays, two of them of
\* different lengths, the outer item type is the top Value type (and so it
\* is whenever it has two or more array elements, equal lengths included).
C5_NestedArraysFallBackToValue ==
    /\ \A i \in 1..Len(typeRet) :
          LET v == ArgOf(i)
          IN  (/\ isValueRet = <<TRUE>>
               /\ v.k = "array"
               /\ Len(v.items) >= 2
               /\ \A j \in 1..Len(v.items) : v.items[j].k = "array")
              => /\ ~typeRet[i].threw
                 /\ typeRet[i].type.kind = "array"
                 /\ heap[typeRet[i].type.addr].itemType = ValueType
                 /\ heap[typeRet[i].type.addr].N = Len(v.items)
    /\ TypeOfLiteral(Arr(<<Arr(<<Num(1), Num(2)>>), Arr(<<Num(3)>>)>>)) = ArrayOf("value", 2)

C5_Witness ==
    /\ isValueRet = <<TRUE>>
    /\ mixed = Arr(<<Arr(<<Num(1), Num(1)>>), Arr(<<Num(1)>>)>>)
    /\ Len(typeRet) >= 1
    /\ heap[typeRet[1].type.addr].itemType = ValueType

\* C7 as claimed: typeOf of a newly constructed Value of the same shape
\* returns the very descriptor the first call returned, Array types included.
C7_Original ==
    (isValueRet = <<TRUE>> /\ Len(typeRet) >= 2) =>
        \A i \in 2..Len(typeRet) : typeRet[i].type = typeRet[1].type

\* C7 amended: for a Value that is not an array the second call returns the
\* identical (singleton) descriptor; for an array it returns a new
\* descriptor, not identity-equal to the first, of the same length and
\* denoting the same item type.
C7_RoundTrip ==
    (isValueRet = <<TRUE>> /\ Len(typeRet) >= 2) =>
        \A i \in 2..Len(typeRet) :
            /\ ~typeRet[i].threw /\ ~typeRet[1].threw
            /\ mixed.k # "array" =>
                  /\ typeRet[i].type = typeRet[1].type
                  /\ typeRet[i].type.addr = 0
            /\ mixed.k = "array" =>
                  /\ typeRet[i].type # typeRet[1].type
                  /\ Denotes(typeRet[i].type, heap) = Denotes(typeRet[1].type, heap)

C7_Witness ==
    /\ isValueRet = <<TRUE>>
    /\ Len(typeRet) = 2
    /\ mixed.k = "array"
    /\ Len(mixed.items) = 2
    /\ typeRet[1].type # typeRet[2].type

\* C8: on every candidate isValue accepted, typeOf returns a descriptor: the
\* assertion of its final branch fails neither at the top level nor in a
\* recursive call on an array element.
C8_TypeOfNeverThrowsOnValues ==
    isValueRet = <<TRUE>> =>
        \A i \in 1..Len(typeRet) :
            /\ ~typeRet[i].threw
            /\ typeRet[i].type # Unset

C8_Witness ==
    /\ isValueRet = <<TRUE>>
    /\ mixed.k = "array"
    /\ Len(mixed.items) = 2
    /\ mixed.items[2].k = "array"
    /\ Len(typeRet) = 2
    /\ ~typeRet[2].threw

(***************************************************************************)
(* Properties of isValue                                                   *)
(***************************************************************************)
\* The Value grammar: null | string | boolean | number | Color | Collator |
\* Formatted | Padding | ResolvedImage | ReadonlyArray<Value> |
\* {readonly [x: string]: Value}.
RECURSIVE ValueGrammar(_)
ValueGrammar(v) ==
    \/ v.k \in {"null", "string", "boolean", "number"}
    \/ v.k \in WrapperKinds
    \/ v.k = "array" /\ \A i \in 1..Len(v.items) : ValueGrammar(v.items[i])
    \/ v.k = "object" /\ \A i \in 1..Len(v.props) : ValueGrammar(v.props[i].val)

\* C2: isValue returns true iff the candidate conforms to the Value grammar,
\* and false for anything else: a function, undefined, a symbol, a date, or
\* an array or mapping holding such a leaf at any depth.
C2_IsValueIffGrammar ==
    isValueRet # <<>> => (isValueRet[1] <=> ValueGrammar(mixed))

(***************************************************************************)
(* Properties of toString                                                  *)
(***************************************************************************)
\* C4 as claimed: structurally equal Values, object equality being
\* independent of key insertion order, have the same toString.
C4_Original ==
    (isValueRet = <<TRUE>> /\ Len(strRet) = 2 /\ StructEq(mixed, other)) =>
        strRet[1] = strRet[2]

\* The names of an object's properties that are not array indices, in
\* insertion order.
StringKeys(props) ==
    LET kept == SelectSeq(props, LAMBDA p : ~IsIndexKey(p.key))
    IN  [i \in 1..Len(kept) |-> kept[i].key]

ValueAt(props, key) == (CHOOSE p \in {props[i] : i \in 1..Len(props)} : p.key = key).val

\* v and w, structurally equal, list the non-index keys of every pair of
\* corresponding objects in the same order.
RECURSIVE SameKeyOrder(_, _)
SameKeyOrder(v, w) ==
    IF v.k = "array"
    THEN \A i \in 1..Len(v.items) : SameKeyOrder(v.items[i], w.items[i])
    ELSE IF v.k = "object"
    THEN /\ StringKeys(v.props) = StringKeys(w.props)
         /\ \A i \in 1..Len(v.props) :
               SameKeyOrder(v.props[i].val, ValueAt(w.props, v.props[i].key))
    ELSE TRUE

\* C4 amended: structurally equal Values whose corresponding objects list
\* their non-index string keys in the same insertion order have the same
\* toString.
C4_SameStringForSameKeyOrder ==
    (/\ isValueRet = <<TRUE>>
     /\ Len(strRet) = 2
     /\ StructEq(mixed, other)
     /\ SameKeyOrder(mixed, other)) =>
        strRet[1] = strRet[2]

C4_Witness ==
    /\ isValueRet = <<TRUE>>
    /\ Len(strRet) = 2
    /\ mixed = Obj(<<Prop("a", Num(1)), Prop("0", Str("a"))>>)
    /\ other = Obj(<<Prop("0", Str("a")), Prop("a", Num(1))>>)
    /\ strRet[1] = strRet[2]

(***************************************************************************)
(* Properties of validateRGBA                                              *)
(***************************************************************************)
\* x is a number in the closed range [lo, hi].
NumberIn(x, lo, hi) ==
    /\ x.k = "number"
    /\ ~x.nan
    /\ 2 * lo <= 2 * x.whole + x.halves
    /\ 2 * x.whole + x.halves <= 2 * hi

ChannelsValid == NumberIn(r, 0, 255) /\ NumberIn(g, 0, 255) /\ NumberIn(b, 0, 255)
AlphaOmitted == a = Undefined
AlphaValid == AlphaOmitted \/ NumberIn(a, 0, 1)

\* C3: validateRGBA returns null iff r, g, b are numbers in [0, 255] and a is
\* omitted or a number in [0, 1]; otherwise a message that names the 0-255
\* constraint whenever r, g or b is invalid and the 0-1 constraint when only
\* a is invalid.
C3_ValidateRGBA ==
    /\ rgbaRet # <<>> =>
          /\ ~rgbaRet[1].error <=> (ChannelsValid /\ AlphaValid)
          /\ ~ChannelsValid => (rgbaRet[1].error /\ rgbaRet[1].rule = RgbRule)
          /\ (ChannelsValid /\ ~AlphaValid) =>
                (rgbaRet[1].error /\ rgbaRet[1].rule = AlphaRule)
    /\ validateRGBA(Num(-1), Num(0), Num(0), Undefined).text
          = "Invalid rgba value [-1, 0, 0]: 'r', 'g', and 'b' must be between 0 and 255."
    /\ validateRGBA(Num(0), Num(0), Num(0), Half(1, 1)).text
          = "Invalid rgba value [0, 0, 0, 1.5]: 'a' must be between 0 and 1."

C3_Witness ==
    /\ rgbaRet # <<>>
    /\ r = Num(255) /\ g = Num(0) /\ b = Half(0, 1)
    /\ a = Half(1, 1)
    /\ rgbaRet[1].rule = AlphaRule

\* C6: the tuple echoed in an error message has four components whenever a
\* was supplied, whatever its kind and whichever constraint failed, and
\* three iff a was omitted.
C6_EchoedTupleArity ==
    (rgbaRet # <<>> /\ rgbaRet[1].error) =>
        Len(rgbaRet[1].value) = (IF AlphaOmitted THEN 3 ELSE 4)

(***************************************************************************)
(* Properties of Interaction                                               *)
(***************************************************************************)
\* The tap timer is pending: set by setTimeout, neither run nor cleared.
TapPending == tapped.k = "number" /\ tapped.whole \in timers

\* this._tapped is truthy exactly while its timer is pending, and no other
\* timer is.
TapTimerInv ==
    /\ Truthy(tapped) <=> TapPending
    /\ timers \subseteq (IF tapped.k = "number" THEN {tapped.whole} ELSE {})

TouchStartStep ==
    event'.type = "touchstart" =>
        IF event'.touches = Undefined \/ Len(event'.touches.items) > 1
        THEN fired' = fired /\ tapped' = tapped /\ timers' = timers
        ELSE IF TapPending
        THEN /\ fired' = Append(fired, "dblclick")
             /\ tapped' = Null
             /\ timers' = {}
        ELSE /\ fired' = fired
             /\ tapped'.k = "number"
             /\ tapped'.whole \notin timers
             /\ timers' = {tapped'.whole}

TimeoutStep ==
    event'.type = "timeout" => (TapPending /\ tapped' = Null /\ timers' = {} /\ fired' = fired)

\* C9: a touchstart with a touches list of at most one touch fires
\* 'dblclick' iff a tap timer is pending; when it fires the timer is
\* cancelled and _tapped reset, so the next tap starts a new timer instead of
\* firing; an expired timer resets _tapped; a touchstart with no touches list
\* or more than one touch fires nothing and leaves _tapped unchanged.
C9_DoubleTap == [][TouchStartStep /\ TimeoutStep]_vars /\ []TapTimerInv

\* Three quick taps: one dblclick fired, and the third tap's timer pending.
C9_Witness ==
    /\ event.type = "touchstart"
    /\ fired = <<"dblclick">>
    /\ nextTimer = 3
    /\ TapPending

MouseUpStep ==
    event'.type = "mouseup" =>
        /\ fired' = fired \o (IF contextMenuFired = Bool(TRUE)
                                  /\ ~event'.dragRotate /\ ~event'.dragPan
                               THEN <<"contextmenu", "mouseup">>
                               ELSE <<"mouseup">>)
        /\ contextMenuFired' = Null

\* The pending flag is set by a DOM contextmenu event and by nothing else,
\* and only the mouseup handler fires 'contextmenu' or clears the flag.
ContextMenuStep ==
    /\ event'.type = "contextmenu" => (contextMenuFired' = Bool(TRUE) /\ fired' = fired)
    /\ event'.type \notin {"contextmenu", "mouseup"} =>
          /\ contextMenuFired' = contextMenuFired
          /\ \/ fired' = fired
             \/ fired' = Append(fired, "dblclick")

\* C10: 'contextmenu' is fired only by the mouseup handler, exactly when a
\* DOM contextmenu event arrived since the previous mouseup and neither
\* dragRotate nor dragPan is active; it precedes that mouseup's 'mouseup'
\* event, at most once per mouseup; every mouseup clears the pending flag,
\* also when a drag suppressed the firing.
C10_DeferredContextMenu == [][MouseUpStep /\ ContextMenuStep]_vars

\* A mouseup that fires 'mouseup' alone, then a context menu requested and
\* fired ahead of the next mouseup's 'mouseup', the flag cleared again.
C10_Witness ==
    /\ event.type = "mouseup"
    /\ fired = <<"mouseup", "contextmenu", "mouseup">>
    /\ contextMenuFired = Null

====
